---- MODULE Spec2Model ----
(***************************************************************************)
(* Verification model of Typed-Api-Schema-Client (tasc).                   *)
(*                                                                         *)
(* Two long-running programs poll the OpenAPI source and regenerate:       *)
(*   prog = "sched" : src/src/scripts/generate-operations.ts (the          *)
(*                    change-detection scheduler, lines 400-708)           *)
(*   prog = "watch" : src/src/cli/commands/watch.ts (`tasc watch`)         *)
(* A behaviour runs one of them (chosen in Init), possibly stopped and     *)
(* started again.  A poll cycle is one invocation of schedule() or one     *)
(* iteration of the watch loop; cyc[c] holds the locals of cycle c.        *)
(*                                                                         *)
(* Environment: every fetch may return any document (the source changes    *)
(* what it serves at will) or fail; the regeneration child may exit 0,     *)
(* exit non-zero, be killed, fail to start, hang, and may ignore SIGTERM;  *)
(* a stop signal may arrive at any moment.  Writes to the local disk       *)
(* succeed (the design's error taxonomy has no storage error; the catch    *)
(* blocks at generate-operations.ts:459 and :541 only log).                *)
(***************************************************************************)
EXTENDS Integers, FiniteSets, Sequences, TLC

\* ------------------------------------------------------------------ bounds
NumContents == 2
MaxCycles == 2
MaxRestarts == 1

Contents == 1..NumContents
CycleIds == 1..MaxCycles

\* ------------------------------------------------------------- variables
VARIABLES
  prog,            \* which program this behaviour runs
  proc,            \* "init" (loading config), "running", "stopped"
  runs,            \* number of restarts so far
  cacheFile,       \* .api-cache.json
  specFile,        \* openapi.json on disk (0 = absent)
  artifact,        \* document the generated files were produced from (0 = none)
  isShuttingDown,  \* generate-operations.ts:401 / watch.ts:30
  activeChild,     \* generate-operations.ts:400 (TRUE = a handle is held)
  cycleCounter,    \* generate-operations.ts:402 / watch.ts:27 cycleCount
  lastHash,        \* watch.ts:26 (0 = null)
  cyc,             \* per-cycle locals
  child,           \* the regeneration child process
  exitCode,        \* status of the latest process exit (-1 = none yet)
  configFile,      \* tasc.config.ts as loadConfig finds it
  template,        \* path template a path-based client call is made on
  names,           \* what extractPathParams returned for template
  doc,             \* spec.paths of openapi.json, in insertion order
  operations,      \* the operations array built by generateOperations
  bindings,        \* the operation functions emitted into operations.ts
  call,            \* the latest call of the client: what the caller passed
  outcome,         \* what that call did
  clock,           \* new Date(), counted from the first generation
  opsFile,         \* operations.ts as generateOperations wrote it
  clientOp         \* client.op of a client made by createTypedApiClient

\* the generated client library, its generator and one use of it
lib == <<template, names, doc, operations, bindings, call, outcome,
         clock, opsFile, clientOp>>

vars == <<prog, proc, runs, cacheFile, specFile, artifact,
          isShuttingDown, activeChild, cycleCounter, lastHash, cyc, child,
          exitCode, configFile, lib>>

\* ----------------------------------------------------------- pure helpers

\* createHash("sha256").update(buffer).digest("hex"): an injective digest
sha256(b) == 1000 + b

NoCacheFile == [kind |-> "absent", hash |-> 0, timestamp |-> 0]
CorruptCacheFile == [kind |-> "corrupt", hash |-> 0, timestamp |-> 0]
CacheRecord(h, t) == [kind |-> "record", hash |-> h, timestamp |-> t]

\* loadCache: null (ok = FALSE) when the file is missing or not JSON
loadCache(file) ==
  IF file.kind = "record"
    THEN [ok |-> TRUE, hash |-> file.hash, timestamp |-> file.timestamp]
    ELSE [ok |-> FALSE, hash |-> 0, timestamp |-> 0]

\* variant: the hash field is filled from the wrong property
saveCache_WrongField(apiData) ==
  CacheRecord(apiData.timestamp, apiData.timestamp)

\* variant: the record is not written at this point (left for later)
saveCache_Deferred(apiData) == cacheFile

\* variant: a file that is there but unreadable is left alone
saveCache_KeepUnreadable(apiData) ==
  IF cacheFile.kind = "corrupt"
    THEN cacheFile
    ELSE CacheRecord(apiData.hash, apiData.timestamp)

\* saveCache: the file holds { hash, timestamp } of the fetched data
saveCache(apiData) == CacheRecord(apiData.hash, apiData.timestamp)

\* variant: the missing-cache test of line 477 is left out
ApiChanged_NoCacheCase(currentApi, cachedApi) ==
  /\ cachedApi.ok
  /\ currentApi.hash # cachedApi.hash

\* variant: line 483 compares the timestamps instead of the hashes
ApiChanged_Timestamp(currentApi, cachedApi) ==
  \/ ~cachedApi.ok
  \/ currentApi.timestamp # cachedApi.timestamp

\* the decision of hasApiChanged once fetch and loadCache have resolved
ApiChanged(currentApi, cachedApi) ==
  \/ ~cachedApi.ok
  \/ currentApi.hash # cachedApi.hash

NoCycle ==
  [phase |-> "none", fetchOk |-> FALSE, content |-> 0, hash |-> 0,
   timestamp |-> 0, cached |-> loadCache(NoCacheFile),
   shouldGenerate |-> FALSE, spawned |-> 0, gen |-> 0]

NoChild ==
  [state |-> "none", ignoresTerm |-> FALSE, termSent |-> FALSE,
   killSent |-> FALSE, exit |-> "none"]

\* child.kill(sig): true iff the signal reached a process
KillResult(ch) == ch.state \in {"running", "zombie"}

KillEffect(ch, sig) ==
  IF ch.state = "running"
    THEN IF sig = "SIGTERM" THEN [ch EXCEPT !.termSent = TRUE]
                            ELSE [ch EXCEPT !.killSent = TRUE]
    ELSE ch

\* ---------------------------------------------------------- configuration
\* a file name and a file path: directory segments, then the name
Name(stem, ext) == [stem |-> stem, ext |-> ext]

FilePath(dirs, name) == [dirs |-> dirs, name |-> name]

\* an option of config.outputs that is not set
NotSet == FilePath(<<>>, Name("", ""))

\* config.outputs: the fields generateOperationsFile depends on (base_path
\* is left out: it is joined in front of every path alike)
Outputs(dir, apiTypes) ==
  [dir |-> dir, api_types |-> apiTypes, api_operations |-> NotSet]

DefaultOutputs == Outputs(<<>>, NotSet)

\* tasc.config.ts: not there, there with a default export validateConfig
\* rejects (or that cannot be imported), or there and valid
NoConfigFile == [kind |-> "absent", outputs |-> DefaultOutputs]

InvalidConfigFile == [kind |-> "invalid", outputs |-> DefaultOutputs]

ConfigFile(outputs) == [kind |-> "valid", outputs |-> outputs]

\* the states of the config file a program may be started on
ConfigFiles == {NoConfigFile, InvalidConfigFile, ConfigFile(DefaultOutputs)}

\* variant: without a usable file the defaults are taken
loadConfig_Defaults(file) == [ok |-> TRUE, outputs |-> file.outputs]

\* loadConfig: throws (ok = FALSE) when no file is found, when the import
\* fails or when validateConfig throws; the config otherwise
loadConfig(file) == [ok |-> file.kind = "valid", outputs |-> file.outputs]

\* --------------------------------------- client library: path templates
\* A string is a sequence of characters.  Templates are drawn from the
\* braces, a letter and a separator.
Alphabet == {"{", "}", "a", "_"}

MaxLen == 6
MaxPathLen == 4
MaxPaths == 2
MaxOps == 3
MaxTime == 2
NumIds == 2

Strings(n) == UNION {[1..k -> Alphabet] : k \in 0..n}

\* JavaScript values: undefined, null, numbers, strings, and objects.  An
\* object carries what its caller meant it for (role) and its properties.
Undefined == [t |-> "undefined", n |-> 0, s |-> <<>>, role |-> "", map |-> <<>>]
Null == [t |-> "null", n |-> 0, s |-> <<>>, role |-> "", map |-> <<>>]
Num(n) == [t |-> "number", n |-> n, s |-> <<>>, role |-> "", map |-> <<>>]
Str(s) == [t |-> "string", n |-> 0, s |-> s, role |-> "", map |-> <<>>]
Obj(role, map) == [t |-> "object", n |-> 0, s |-> <<>>, role |-> role, map |-> map]

\* value === undefined || value === null (api-client.ts line 261)
Nullish(v) == v.t \in {"undefined", "null"}

\* obj[key]
Lookup(obj, key) ==
  IF obj.t = "object" /\ key \in DOMAIN obj.map THEN obj.map[key]
                                               ELSE Undefined

Digits == <<"0", "1", "2", "3", "4", "5", "6", "7", "8", "9">>

RECURSIVE Decimal(_)
Decimal(n) ==
  IF n < Len(Digits) THEN <<Digits[n + 1]>>
  ELSE Decimal(n \div Len(Digits)) \o <<Digits[(n % Len(Digits)) + 1]>>

\* String(value), line 265
StringOf(v) == IF v.t = "number" THEN Decimal(v.n) ELSE v.s

\* characters encodeURIComponent leaves alone, among those used here
Unreserved == {"a", "A", "_", "-"} \cup {Digits[i] : i \in DOMAIN Digits}

PercentCode(c) ==
  CASE c = "/" -> <<"%", "2", "F">>
    [] c = "{" -> <<"%", "7", "B">>
    [] c = "}" -> <<"%", "7", "D">>
    [] c = "%" -> <<"%", "2", "5">>

RECURSIVE encodeURIComponent(_)
encodeURIComponent(str) ==
  IF str = <<>> THEN <<>>
  ELSE (IF Head(str) \in Unreserved THEN <<Head(str)>>
                                    ELSE PercentCode(Head(str)))
       \o encodeURIComponent(Tail(str))

\* String(url).includes(c), line 339
includes(str, c) == \E i \in 1..Len(str) : str[i] = c

\* /\{([^}]+)\}/ tried at index i: where the match ends (0 = no match here)
MatchEnd(str, i) ==
  IF /\ i + 2 <= Len(str)
     /\ str[i] = "{"
     /\ str[i + 1] # "}"
     /\ \E j \in (i + 2)..Len(str) : str[j] = "}"
    THEN CHOOSE j \in (i + 2)..Len(str) :
           /\ str[j] = "}"
           /\ \A k \in (i + 2)..(j - 1) : str[k] # "}"
    ELSE 0

\* the g flag: matches are taken left to right, the search going on after
\* each match; the capture group of each is returned
RECURSIVE matchAll(_, _)
matchAll(str, i) ==
  IF i > Len(str) THEN <<>>
  ELSE IF MatchEnd(str, i) # 0
    THEN <<SubSeq(str, i + 1, MatchEnd(str, i) - 1)>>
         \o matchAll(str, MatchEnd(str, i) + 1)
    ELSE matchAll(str, i + 1)

\* extractPathParams: [...pathTemplate.matchAll(re)].map(m => m[1])
extractPathParams(pathTemplate) == matchAll(pathTemplate, 1)

\* [a-z], among the characters used here
LowerCase == {"a"}

\* letter.toUpperCase()
toUpperCase(c) == IF c = "a" THEN "A" ELSE c

\* toCamelCase: str.replace(/[-_]([a-z])/g, (_, letter) => upper(letter))
RECURSIVE toCamelCase(_)
toCamelCase(str) ==
  IF str = <<>> THEN <<>>
  ELSE IF /\ Len(str) >= 2
          /\ str[1] \in {"-", "_"}
          /\ str[2] \in LowerCase
    THEN <<toUpperCase(str[2])>> \o toCamelCase(SubSeq(str, 3, Len(str)))
    ELSE <<str[1]>> \o toCamelCase(Tail(str))

\* path.replace(re, callback) of lines 259-266, from index i on: the new
\* string and the keys pushed to `missing`
RECURSIVE replaceAll(_, _, _)
replaceAll(path, i, params) ==
  IF i > Len(path) THEN [result |-> <<>>, missing |-> <<>>]
  ELSE IF MatchEnd(path, i) # 0
    THEN LET j == MatchEnd(path, i)
             key == SubSeq(path, i + 1, j - 1)
             value == Lookup(params, key)
             rest == replaceAll(path, j + 1, params)
         IN IF Nullish(value)
              THEN [result |-> SubSeq(path, i, j) \o rest.result,
                    missing |-> <<key>> \o rest.missing]
              ELSE [result |-> encodeURIComponent(StringOf(value))
                                 \o rest.result,
                    missing |-> rest.missing]
    ELSE LET rest == replaceAll(path, i + 1, params)
         IN [result |-> <<path[i]>> \o rest.result, missing |-> rest.missing]

\* what interpolatePath does: return a string, or throw the error of lines
\* 268-272, which is made of the missing keys and the template
Returned(str) ==
  [threw |-> FALSE, result |-> str, missing |-> <<>>, template |-> <<>>]

Thrown(missing, path) ==
  [threw |-> TRUE, result |-> <<>>, missing |-> missing, template |-> path]

\* the replacement without the g flag: the first match only
RECURSIVE replaceFirst(_, _, _)
replaceFirst(path, i, params) ==
  IF i > Len(path) THEN [result |-> <<>>, missing |-> <<>>]
  ELSE IF MatchEnd(path, i) # 0
    THEN LET j == MatchEnd(path, i)
             key == SubSeq(path, i + 1, j - 1)
             value == Lookup(params, key)
         IN IF Nullish(value)
              THEN [result |-> SubSeq(path, i, Len(path)),
                    missing |-> <<key>>]
              ELSE [result |-> encodeURIComponent(StringOf(value))
                                 \o SubSeq(path, j + 1, Len(path)),
                    missing |-> <<>>]
    ELSE LET rest == replaceFirst(path, i + 1, params)
         IN [result |-> <<path[i]>> \o rest.result, missing |-> rest.missing]

\* variant: the regular expression lacks the g flag
interpolatePath_FirstOnly(urlTemplate, params) ==
  IF Nullish(params) THEN Returned(urlTemplate)
  ELSE LET r == replaceFirst(urlTemplate, 1, params)
       IN IF Len(r.missing) > 0 THEN Thrown(r.missing, urlTemplate)
                                ELSE Returned(r.result)

\* variant: the callback throws at the first missing key
interpolatePath_ShortCircuit(urlTemplate, params) ==
  IF Nullish(params) THEN Returned(urlTemplate)
  ELSE LET r == replaceAll(urlTemplate, 1, params)
       IN IF Len(r.missing) > 0
            THEN Thrown(<<r.missing[1]>>, urlTemplate)
            ELSE Returned(r.result)

\* interpolatePath, lines 252-275.  The values passed here are undefined,
\* null or objects, and of these `!params` holds for the first two.
interpolatePath(urlTemplate, params) ==
  IF Nullish(params) THEN Returned(urlTemplate)
  ELSE LET r == replaceAll(urlTemplate, 1, params)
       IN IF Len(r.missing) > 0 THEN Thrown(r.missing, urlTemplate)
                                ELSE Returned(r.result)

\* ------------------------------------------ client library: dispatcher
\* ["get", "post", "put", "delete", "patch"], operations.ts line 27
Methods == <<"get", "post", "put", "delete", "patch">>

MethodSet == {Methods[i] : i \in DOMAIN Methods}

\* the methods whose signature has `data` after `url` (lines 361, 395, 458)
BodyMethods == {"post", "put", "patch"}

\* args[i] of a rest parameter: undefined past the end
Arg(args, i) == IF i <= Len(args) THEN args[i] ELSE Undefined

NoOutcome ==
  [kind |-> "none", method |-> "", url |-> <<>>, pathParams |-> Undefined,
   data |-> Undefined, config |-> Undefined, missing |-> <<>>,
   template |-> <<>>]

\* client.get/post/put/delete/patch(url, ...args), lines 332-486.  The
\* argument interpolatePath(url, pathParams) is evaluated first: if it
\* throws, the method of axiosInstance is not called ("threw"); otherwise it
\* is called with the url, the data (body methods) and finalConfig ("sent").
createApiClient(method, url, args) ==
  LET hasPathParams == includes(url, "{")
      hasData == method \in BodyMethods
      data == IF hasData THEN Arg(args, 1) ELSE Undefined
      rest == IF hasData THEN SubSeq(args, 2, Len(args)) ELSE args
      pathParamsOrConfig == Arg(rest, 1)
      config == Arg(rest, 2)
      pathParams == IF hasPathParams THEN pathParamsOrConfig ELSE Undefined
      finalConfig == IF hasPathParams THEN config ELSE pathParamsOrConfig
      r == interpolatePath(url, pathParams)
  IN [kind |-> IF r.threw THEN "threw" ELSE "sent",
      method |-> method,
      url |-> r.result,
      pathParams |-> pathParams,
      data |-> IF r.threw THEN Undefined ELSE data,
      config |-> IF r.threw THEN Undefined ELSE finalConfig,
      missing |-> r.missing,
      template |-> r.template]

\* ------------------------------------------------ operations generator
\* an operation object of a path item; operationId 0 = none (or empty)
NoOperation == [present |-> FALSE, operationId |-> 0, requestBody |-> FALSE]

OperationObject(id, body) ==
  [present |-> TRUE, operationId |-> id, requestBody |-> body]

\* variant: `break` where the source has `continue` for a missing id
RECURSIVE ForMethods_Break(_, _)
ForMethods_Break(entry, m) ==
  IF m > Len(Methods) THEN <<>>
  ELSE LET operation == entry.item[Methods[m]]
       IN IF ~operation.present THEN ForMethods_Break(entry, m + 1)
          ELSE IF operation.operationId = 0 THEN <<>>
          ELSE <<[operationId |-> operation.operationId,
                  method |-> Methods[m],
                  path |-> entry.path,
                  pathParams |-> extractPathParams(entry.path),
                  hasRequestBody |-> operation.requestBody]>>
               \o ForMethods_Break(entry, m + 1)

\* the body of the outer loop, operations.ts lines 27-41 (script: 171-208):
\* the methods from index m on
RECURSIVE ForMethods(_, _)
ForMethods(entry, m) ==
  IF m > Len(Methods) THEN <<>>
  ELSE LET operation == entry.item[Methods[m]]
       IN (IF ~operation.present \/ operation.operationId = 0 THEN <<>>
           ELSE <<[operationId |-> operation.operationId,
                   method |-> Methods[m],
                   path |-> entry.path,
                   pathParams |-> extractPathParams(entry.path),
                   hasRequestBody |-> operation.requestBody]>>)
          \o ForMethods(entry, m + 1)

\* the outer loop, operations.ts lines 24-42 (script: parseOpenApiSpec,
\* 169-209): the entries of spec.paths from index p on
RECURSIVE ForPaths(_, _)
ForPaths(paths, p) ==
  IF p > Len(paths) THEN <<>>
  ELSE ForMethods(paths[p], 1) \o ForPaths(paths, p + 1)

parseOpenApiSpec(paths) == ForPaths(paths, 1)

\* a parameter of an emitted arrow function
Param(name, optional) == [name |-> name, optional |-> optional]

\* the arguments of the emitted apiClient call, lines 343-356
ApiCall(pathParams, hasRequestBody) ==
  IF hasRequestBody
    THEN IF Len(pathParams) > 0 THEN <<"data", "pathParams", "config">>
                                ELSE <<"data", "config">>
    ELSE IF Len(pathParams) > 0 THEN <<"pathParams", "config">>
                                ELSE <<"config">>

\* variant: the parameters are declared in the order of the emitted call
generateOperationFunction_CallOrder(operation) ==
  [operationId |-> operation.operationId,
   method |-> operation.method,
   path |-> operation.path,
   params |->
     [k \in 1..Len(ApiCall(operation.pathParams, operation.hasRequestBody))
        |-> Param(ApiCall(operation.pathParams,
                          operation.hasRequestBody)[k], TRUE)],
   pathParamsType |->
     [k \in 1..Len(operation.pathParams) |->
        toCamelCase(operation.pathParams[k])],
   apiCall |-> ApiCall(operation.pathParams, operation.hasRequestBody)]

\* generateOperationFunction, operations.ts lines 292-360 (script: 86-155):
\* the emitted `operationId: (params) => apiClient.method(path, apiCall)`
generateOperationFunction(operation) ==
  [operationId |-> operation.operationId,
   method |-> operation.method,
   path |-> operation.path,
   params |->
     (IF Len(operation.pathParams) > 0
        THEN <<Param("pathParams", FALSE)>> ELSE <<>>)
     \o (IF operation.hasRequestBody
           THEN <<Param("data", TRUE)>> ELSE <<>>)
     \o <<Param("config", TRUE)>>,
   pathParamsType |->
     [k \in 1..Len(operation.pathParams) |->
        toCamelCase(operation.pathParams[k])],
   apiCall |-> ApiCall(operation.pathParams, operation.hasRequestBody)]

\* resolveOutputPath, path-resolver.ts lines 21-49
resolveOutputPath(outputs, type, defaultFilename) ==
  IF outputs.dir # <<>> THEN FilePath(outputs.dir, defaultFilename)
  ELSE IF outputs[type] # NotSet THEN outputs[type]
  ELSE FilePath(<<".tasc">>, defaultFilename)

\* how many leading segments two directories share
RECURSIVE CommonPrefix(_, _)
CommonPrefix(a, b) ==
  IF a # <<>> /\ b # <<>> /\ Head(a) = Head(b)
    THEN 1 + CommonPrefix(Tail(a), Tail(b))
    ELSE 0

\* path.relative(from, to): the ".." steps out of `from`, then the rest of
\* `to`
relative(from, to) ==
  [ups |-> Len(from) - CommonPrefix(from, to.dirs),
   dirs |-> SubSeq(to.dirs, CommonPrefix(from, to.dirs) + 1, Len(to.dirs)),
   name |-> to.name]

\* the module specifier of the types import, operations.ts lines 86-98: the
\* relative path without its ".ts", with "./" in front unless it starts
\* with "../"
RelativeImport(outputs) ==
  LET operationsPath ==
        resolveOutputPath(outputs, "api_operations", Name("operations", "ts"))
      typesPath == resolveOutputPath(outputs, "api_types", Name("types", "ts"))
      rel == relative(operationsPath.dirs, typesPath)
  IN [dotSlash |-> rel.ups = 0,
      ups |-> rel.ups,
      dirs |-> rel.dirs,
      name |-> IF rel.name.ext = "ts" THEN Name(rel.name.stem, "")
                                      ELSE rel.name]

NoOpsFile ==
  [written |-> FALSE, lastGenerated |-> 0, total |-> 0,
   importPath |-> RelativeImport(DefaultOutputs), functions |-> <<>>]

\* variant: a second line of the header depends on the time of generation
generateOperationsFile_Stamped(ops, outputs, now) ==
  [written |-> TRUE,
   lastGenerated |-> now,
   total |-> Len(ops) + now,
   importPath |-> RelativeImport(outputs),
   functions |-> [k \in 1..Len(ops) |->
                    generateOperationFunction(ops[k])]]

\* generateOperationsFile, operations.ts lines 73-287: the header with the
\* generation time, the operation count and the import of the types, then
\* one function per operation in the order of the array; the rest of the
\* text is fixed
generateOperationsFile(ops, outputs, now) ==
  [written |-> TRUE,
   lastGenerated |-> now,
   total |-> Len(ops),
   importPath |-> RelativeImport(outputs),
   functions |-> [k \in 1..Len(ops) |->
                    generateOperationFunction(ops[k])]]

\* variant: a key that is already there is not overwritten
RECURSIVE createOperations_FirstWins(_, _)
createOperations_FirstWins(functions, n) ==
  IF n = 0 THEN {}
  ELSE LET before == createOperations_FirstWins(functions, n - 1)
       IN IF \E e \in before : e[1] = functions[n].operationId
            THEN before
            ELSE before \cup {<<functions[n].operationId, n>>}

\* createOperations, operations.ts lines 235-242: the object literal made of
\* the first n emitted functions, as the pairs <<key, index of the function
\* the key holds>>.  The properties are defined in source order, and a
\* later definition of a key replaces the earlier one.
RECURSIVE createOperations(_, _)
createOperations(functions, n) ==
  IF n = 0 THEN {}
  ELSE {e \in createOperations(functions, n - 1) :
          e[1] # functions[n].operationId}
       \cup {<<functions[n].operationId, n>>}

NoClient == [created |-> FALSE, table |-> {}]

NoNames == [done |-> FALSE, list |-> <<>>]

NoOperations == [done |-> FALSE, list |-> <<>>]

NoCall ==
  [via |-> "none", method |-> "", order |-> "", args |-> <<>>, index |-> 0,
   pathParams |-> Undefined, data |-> Undefined, config |-> Undefined]

\* nothing of the library is in use
LibIdle ==
  /\ template = <<>>
  /\ names = NoNames
  /\ doc = <<>>
  /\ operations = NoOperations
  /\ bindings = <<>>
  /\ call = NoCall
  /\ outcome = NoOutcome
  /\ clock = 1
  /\ opsFile = NoOpsFile
  /\ clientOp = NoClient

\* ------------------------------------------------------------------ Init
Init ==
  /\ prog \in {"sched", "watch", "generate"}
  /\ proc = "init"
  /\ configFile \in ConfigFiles
  /\ runs = 0
  /\ \E prior \in {0} \cup {-1} \cup Contents :
       IF prog = "watch" \/ prior = 0
         THEN cacheFile = NoCacheFile /\ specFile = 0 /\ artifact = 0
       ELSE IF prior = -1
         THEN cacheFile = CorruptCacheFile /\ specFile = 0 /\ artifact = 0
       ELSE /\ cacheFile = CacheRecord(sha256(prior), 0)
            /\ specFile = prior
            /\ artifact = prior
  /\ isShuttingDown = FALSE
  /\ activeChild = FALSE
  /\ cycleCounter = 0
  /\ lastHash = 0
  /\ cyc = [c \in CycleIds |-> NoCycle]
  /\ child = NoChild
  /\ exitCode = -1
  /\ LibIdle

\* ------------------------------------------------- scheduler (prog sched)
disk == <<cacheFile, specFile, artifact>>

\* the process ends: schedule() returned, or process.exit(code)
Stop(code) ==
  /\ proc' = "stopped"
  /\ exitCode' = code

\* cycle n starts fetching.  The locals of a returned invocation are dead;
\* the model keeps those of the cycle before n, and of older cycles only
\* how they ended.
StartCycle(n) ==
  [d \in CycleIds |->
     IF d = n THEN [NoCycle EXCEPT !.phase = "fetching"]
     ELSE IF d < n - 1 THEN [NoCycle EXCEPT !.phase = cyc[d].phase]
     ELSE cyc[d]]

\* schedule(), lines 621-625: check the flag, count, start the cycle
schedule ==
  IF isShuttingDown
    THEN /\ Stop(0)
         /\ UNCHANGED <<cycleCounter, cyc>>
    ELSE /\ cycleCounter < MaxCycles
         /\ cycleCounter' = cycleCounter + 1
         /\ cyc' = StartCycle(cycleCounter + 1)
         /\ proc' = "running"
         /\ UNCHANGED exitCode

\* initialize(), lines 671-702: loadConfig, then schedule()
Initialize(cfgOk) ==
  /\ prog = "sched"
  /\ proc = "init"
  /\ IF cfgOk
       THEN schedule
       ELSE /\ Stop(1)
            /\ UNCHANGED <<cycleCounter, cyc>>
  /\ UNCHANGED <<lib, configFile, prog, runs, disk, isShuttingDown,
                 activeChild, lastHash, child>>

\* spawn("pnpm", ["api:generate"]) and activeChild = child, lines 548-553
Spawned(startOk, ign) ==
  [state |-> IF startOk THEN "running" ELSE "spawnFailed",
   ignoresTerm |-> ign, termSent |-> FALSE, killSent |-> FALSE,
   exit |-> IF startOk THEN "none" ELSE "error"]

\* variant: line 627 goes on to the delay without looking at the flag
AfterRun_NoCheck(c, rec) ==
  /\ cyc' = [cyc EXCEPT ![c] = [rec EXCEPT !.phase = "waiting"]]
  /\ UNCHANGED <<proc, exitCode>>

\* schedule(), line 627, reached when runGenerateOnce has resolved
AfterRun(c, rec) ==
  IF isShuttingDown
    THEN /\ cyc' = [cyc EXCEPT ![c] = [rec EXCEPT !.phase = "cut"]]
         /\ Stop(0)
    ELSE /\ cyc' = [cyc EXCEPT ![c] = [rec EXCEPT !.phase = "waiting"]]
         /\ UNCHANGED <<proc, exitCode>>

\* variant: a failed fetch skips the cycle
OnFetchError_FailClosed == [shouldGenerate |-> FALSE, hasBuffer |-> FALSE]

\* hasApiChanged, lines 491-498: what the catch block returns
OnFetchError == [shouldGenerate |-> TRUE, hasBuffer |-> FALSE]

\* the fetch rejected: hasApiChanged returns OnFetchError; runGenerateOnce
\* (lines 517-553) skips, or goes on without writing openapi.json and
\* spawns the child
FetchFail(c) ==
  /\ prog = "sched" /\ proc = "running"
  /\ cyc[c].phase = "fetching"
  /\ LET rec == [cyc[c] EXCEPT !.fetchOk = FALSE,
                               !.cached = loadCache(cacheFile),
                               !.shouldGenerate = OnFetchError.shouldGenerate]
     IN IF OnFetchError.shouldGenerate
          THEN /\ \E startOk \in BOOLEAN, ign \in BOOLEAN :
                    /\ startOk \/ ~ign
                    /\ child' = Spawned(startOk, ign)
               /\ activeChild' = TRUE
               /\ cyc' = [cyc EXCEPT ![c] =
                    [rec EXCEPT !.phase = "regenerating", !.spawned = @ + 1]]
               /\ UNCHANGED <<proc, exitCode>>
          ELSE /\ AfterRun(c, rec)
               /\ UNCHANGED <<child, activeChild>>
  /\ UNCHANGED <<lib, configFile, prog, runs, disk, isShuttingDown,
                 cycleCounter, lastHash>>

\* Date.now() at the fetch of cycle c: later fetches read later times, and
\* every run starts after the runs before it
DateNow(c) == runs * (MaxCycles + 1) + c

\* fetchApiSpec, lines 408-417: what cycle c's fetch returns when the source
\* serves document b
fetchApiSpec(b, c) ==
  [content |-> b, hash |-> sha256(b), timestamp |-> DateNow(c)]

\* lines 472-475: both promises resolved
Fetched(b, c) ==
  [cyc[c] EXCEPT !.fetchOk = TRUE, !.content = fetchApiSpec(b, c).content,
                 !.hash = fetchApiSpec(b, c).hash,
                 !.timestamp = fetchApiSpec(b, c).timestamp,
                 !.cached = loadCache(cacheFile)]

\* hasApiChanged, lines 489-490, runGenerateOnce 517-524: unchanged, skip
FetchSkip(b, c) ==
  /\ prog = "sched" /\ proc = "running"
  /\ cyc[c].phase = "fetching"
  /\ ~ApiChanged(fetchApiSpec(b, c), loadCache(cacheFile))
  /\ AfterRun(c, [Fetched(b, c) EXCEPT !.shouldGenerate = FALSE])
  /\ UNCHANGED <<lib, configFile, prog, runs, disk, isShuttingDown,
                 activeChild, cycleCounter, lastHash, child>>

\* hasApiChanged, lines 477-487: no cache or another hash; saveCache starts
FetchChanged(b, c) ==
  /\ prog = "sched" /\ proc = "running"
  /\ cyc[c].phase = "fetching"
  /\ ApiChanged(fetchApiSpec(b, c), loadCache(cacheFile))
  /\ cyc' = [cyc EXCEPT ![c] =
       [Fetched(b, c) EXCEPT !.phase = "saving", !.shouldGenerate = TRUE]]
  /\ UNCHANGED <<lib, configFile, prog, proc, runs, disk, isShuttingDown,
                 activeChild, cycleCounter, lastHash, child, exitCode>>

\* saveCache resolved (lines 455-462); runGenerateOnce goes on to write
\* openapi.json (line 530)
SaveCacheDone(c) ==
  /\ prog = "sched" /\ proc = "running"
  /\ cyc[c].phase = "saving"
  /\ cacheFile' = saveCache(cyc[c])
  /\ cyc' = [cyc EXCEPT ![c].phase = "writing"]
  /\ UNCHANGED <<lib, configFile, prog, proc, runs, specFile, artifact,
                 isShuttingDown, activeChild, cycleCounter, lastHash, child,
                 exitCode>>

\* writeFile(specPath, buffer) resolved (line 530); spawn the child
WriteSpecDone(c) ==
  /\ prog = "sched" /\ proc = "running"
  /\ cyc[c].phase = "writing"
  /\ specFile' = cyc[c].content
  /\ \E startOk \in BOOLEAN, ign \in BOOLEAN :
       /\ startOk \/ ~ign
       /\ child' = Spawned(startOk, ign)
  /\ activeChild' = TRUE
  /\ cyc' = [cyc EXCEPT ![c] =
       [@ EXCEPT !.phase = "regenerating", !.spawned = @ + 1]]
  /\ UNCHANGED <<lib, configFile, prog, proc, runs, cacheFile, artifact,
                 isShuttingDown, cycleCounter, lastHash, exitCode>>

\* the child ends by itself: exit 0 (files regenerated from openapi.json),
\* a non-zero exit, or a signal from outside
ChildFinish(how) ==
  /\ prog = "sched"
  /\ child.state = "running"
  /\ how = "ok" => specFile # 0
  /\ child' = [child EXCEPT !.state = "zombie", !.exit = how]
  /\ artifact' = IF how = "ok" THEN specFile ELSE artifact
  /\ UNCHANGED <<lib, configFile, prog, proc, runs, cacheFile, specFile,
                 isShuttingDown, activeChild, cycleCounter, lastHash, cyc,
                 exitCode>>

\* the child dies of a signal sent by shutdown
ChildSignalled ==
  /\ prog = "sched"
  /\ child.state = "running"
  /\ child.killSent \/ (child.termSent /\ ~child.ignoresTerm)
  /\ child' = [child EXCEPT !.state = "zombie",
                            !.exit = IF child.killSent THEN "SIGKILL"
                                                       ELSE "SIGTERM"]
  /\ UNCHANGED <<lib, configFile, prog, proc, runs, disk, isShuttingDown,
                 activeChild, cycleCounter, lastHash, cyc, exitCode>>

\* variant: an abnormal outcome rejects, and initialize() exits with 1
AfterExit_Fatal(c, exit) ==
  IF exit = "ok"
    THEN AfterRun(c, cyc[c])
    ELSE /\ cyc' = [cyc EXCEPT ![c].phase = "cut"]
         /\ Stop(1)

\* runGenerateOnce, lines 601-613: the outcome is logged, whatever it is,
\* and the function returns to schedule()
AfterExit(c, exit) == AfterRun(c, cyc[c])

\* runGenerateOnce, lines 589-613: "exit" or "error" resolved the promise
AwaitExit(c) ==
  /\ prog = "sched" /\ proc = "running"
  /\ cyc[c].phase = "regenerating"
  /\ child.state \in {"zombie", "spawnFailed"}
  /\ activeChild' = FALSE
  /\ child' = [NoChild EXCEPT !.state = "reaped", !.exit = child.exit]
  /\ AfterExit(c, child.exit)
  /\ UNCHANGED <<lib, configFile, prog, runs, disk, isShuttingDown,
                 cycleCounter, lastHash>>

\* delay(INTERVAL_MS) resolved, line 628
DelayDone(c) ==
  /\ prog = "sched" /\ proc = "running"
  /\ cyc[c].phase = "waiting"
  /\ cyc' = [cyc EXCEPT ![c].phase = "waited"]
  /\ UNCHANGED <<lib, configFile, prog, proc, runs, disk, isShuttingDown,
                 activeChild, cycleCounter, lastHash, child, exitCode>>

\* variant: runGenerateOnce is not awaited, the timer alone paces the loop
Awaited_TimerOnly(c) == cyc[c].phase \in {"regenerating", "waiting", "waited"}

\* what schedule() has awaited when it reaches line 629
Awaited(c) == cyc[c].phase = "waited"

\* schedule(), lines 629-631: check the flag, recurse
Recurse(c) ==
  /\ prog = "sched" /\ proc = "running"
  /\ c = cycleCounter
  /\ Awaited(c)
  /\ schedule
  /\ UNCHANGED <<lib, configFile, prog, runs, disk, isShuttingDown,
                 activeChild, lastHash, child>>

\* variant: shutdown cleans the cache file up
CacheAfterShutdown_Cleanup(file) == NoCacheFile

\* shutdown, lines 652-653: the cache file is left as it is
CacheAfterShutdown(file) == file

\* shutdown(signal), lines 637-654.  A repeated signal returns at line 638.
Shutdown ==
  /\ prog = "sched"
  /\ proc \in {"init", "running"}
  /\ ~isShuttingDown
  /\ isShuttingDown' = TRUE
  /\ child' =
       IF activeChild
         THEN IF KillResult(child)
                THEN KillEffect(child, "SIGTERM")
                ELSE KillEffect(KillEffect(child, "SIGTERM"), "SIGKILL")
         ELSE child
  /\ cacheFile' = CacheAfterShutdown(cacheFile)
  /\ UNCHANGED <<lib, configFile, prog, proc, runs, specFile, artifact,
                 activeChild, cycleCounter, lastHash, cyc, exitCode>>

\* the program is started again: fresh memory, same disk
Restart ==
  /\ proc = "stopped"
  /\ runs < MaxRestarts
  /\ proc' = "init"
  /\ runs' = runs + 1
  /\ isShuttingDown' = FALSE
  /\ activeChild' = FALSE
  /\ cycleCounter' = 0
  /\ lastHash' = 0
  /\ cyc' = [c \in CycleIds |-> NoCycle]
  /\ child' = NoChild
  /\ UNCHANGED <<lib, configFile, prog, disk, exitCode>>

SchedNext ==
  \/ Initialize(loadConfig(configFile).ok)
  \/ \E c \in CycleIds :
       \/ FetchFail(c)
       \/ \E b \in Contents : FetchSkip(b, c)
       \/ \E b \in Contents : FetchChanged(b, c)
       \/ SaveCacheDone(c)
       \/ WriteSpecDone(c)
       \/ AwaitExit(c)
       \/ DelayDone(c)
       \/ Recurse(c)
  \/ \E how \in {"ok", "fail", "signal"} : ChildFinish(how)
  \/ ChildSignalled
  \/ Shutdown

\* ------------------------------------------------ `tasc watch` (prog watch)
GenPhases == {"genFetch", "genSave", "genTypes", "genOps", "genClient"}

\* watch.ts lines 42-51: loop test, count, start the fetch.  process.exit in
\* the handler ends the process, so a set flag means the process is gone.
watchLoop ==
  IF isShuttingDown
    THEN /\ Stop(0)
         /\ UNCHANGED <<cycleCounter, cyc>>
    ELSE /\ cycleCounter < MaxCycles
         /\ cycleCounter' = cycleCounter + 1
         /\ cyc' = StartCycle(cycleCounter + 1)
         /\ proc' = "running"
         /\ UNCHANGED exitCode

\* watchCommand, lines 13-42 and 85-91: loadConfig, then the loop
WatchInit(cfgOk) ==
  /\ prog = "watch"
  /\ proc = "init"
  /\ IF cfgOk
       THEN watchLoop
       ELSE /\ Stop(1)
            /\ UNCHANGED <<cycleCounter, cyc>>
  /\ UNCHANGED <<lib, configFile, prog, runs, disk, isShuttingDown,
                 activeChild, lastHash, child>>

\* watch.ts lines 72-83: the cycle's try block is over (normally or through
\* the catch); wait for the interval
WatchAfterTry(c, rec) ==
  cyc' = [cyc EXCEPT ![c] =
            [rec EXCEPT !.phase = IF isShuttingDown THEN "cut"
                                                   ELSE "waiting"]]

\* runGeneration returned: watch.ts (lines 60/68) remembers the hash and
\* leaves the try block; generateCommand returns and the process ends
Generated(c, rec) ==
  IF prog = "watch"
    THEN /\ lastHash' = rec.hash
         /\ WatchAfterTry(c, rec)
         /\ UNCHANGED <<proc, exitCode>>
    ELSE /\ cyc' = [cyc EXCEPT ![c] = [rec EXCEPT !.phase = "done"]]
         /\ Stop(0)
         /\ UNCHANGED lastHash

\* variant: the catch block of runGeneration logs and does not rethrow
GenerationFailed_NoRethrow(c) ==
  IF prog = "watch"
    THEN /\ WatchAfterTry(c, cyc[c])
         /\ UNCHANGED <<proc, exitCode>>
    ELSE /\ cyc' = [cyc EXCEPT ![c].phase = "failed"]
         /\ Stop(0)

\* runGeneration threw (lines 183-187): caught at watch.ts 72-78, which goes
\* on, or at generate.ts 22-28, which ends the process with status 1
GenerationFailed(c) ==
  IF prog = "watch"
    THEN /\ WatchAfterTry(c, cyc[c])
         /\ UNCHANGED <<proc, exitCode>>
    ELSE /\ cyc' = [cyc EXCEPT ![c].phase = "failed"]
         /\ Stop(1)

\* fetch.ts, fetchApiSpec (lines 86-100 of the generator sources): what a
\* successful fetch returns when the source serves document b
fetchSpec(b) == [content |-> b, hash |-> sha256(b)]

\* watch.ts line 51 threw (fetch.ts lines 89-94)
WatchFetchFail(c) ==
  /\ prog = "watch" /\ proc = "running"
  /\ cyc[c].phase = "fetching"
  /\ WatchAfterTry(c, [cyc[c] EXCEPT !.fetchOk = FALSE])
  /\ UNCHANGED <<lib, configFile, prog, proc, runs, disk, isShuttingDown,
                 activeChild, cycleCounter, lastHash, child, exitCode>>

\* watch.ts lines 53 and 61: first run, or another hash than the last one
WatchChanged(hash, last) ==
  \/ last = 0
  \/ hash # last

\* watch.ts lines 69-71: same hash as the last generation
WatchFetchSame(b, c) ==
  /\ prog = "watch" /\ proc = "running"
  /\ cyc[c].phase = "fetching"
  /\ ~WatchChanged(fetchSpec(b).hash, lastHash)
  /\ WatchAfterTry(c, [cyc[c] EXCEPT !.fetchOk = TRUE,
                                     !.hash = fetchSpec(b).hash])
  /\ UNCHANGED <<lib, configFile, prog, proc, runs, disk, isShuttingDown,
                 activeChild, cycleCounter, lastHash, child, exitCode>>

\* watch.ts lines 53-55 and 61-63: runGeneration is called
WatchFetchNew(b, c) ==
  /\ prog = "watch" /\ proc = "running"
  /\ cyc[c].phase = "fetching"
  /\ WatchChanged(fetchSpec(b).hash, lastHash)
  /\ cyc' = [cyc EXCEPT ![c] =
       [@ EXCEPT !.phase = "genFetch", !.fetchOk = TRUE,
                 !.hash = fetchSpec(b).hash, !.shouldGenerate = TRUE,
                 !.spawned = @ + 1]]
  /\ UNCHANGED <<lib, configFile, prog, proc, runs, disk, isShuttingDown,
                 activeChild, cycleCounter, lastHash, child, exitCode>>

\* runGeneration step 1 (index.ts line 164): its own fetch of the document
GenFetch(b, c) ==
  /\ prog \in {"watch", "generate"} /\ proc = "running"
  /\ cyc[c].phase = "genFetch"
  /\ cyc' = [cyc EXCEPT ![c] =
       [@ EXCEPT !.phase = "genSave", !.content = fetchSpec(b).content,
                 !.gen = 1]]
  /\ UNCHANGED <<lib, configFile, prog, proc, runs, disk, isShuttingDown,
                 activeChild, cycleCounter, lastHash, child, exitCode>>

\* runGeneration step 2 (line 168): saveApiSpec writes the document
GenSave(c) ==
  /\ prog \in {"watch", "generate"} /\ proc = "running"
  /\ cyc[c].phase = "genSave"
  /\ specFile' = cyc[c].content
  /\ cyc' = [cyc EXCEPT ![c] = [@ EXCEPT !.phase = "genTypes", !.gen = 2]]
  /\ UNCHANGED <<lib, configFile, prog, proc, runs, cacheFile, artifact,
                 isShuttingDown, activeChild, cycleCounter, lastHash, child,
                 exitCode>>

\* runGeneration step 3 (line 172): openapi-typescript rewrote the types
\* from the document on disk; the other generated files are still the old
\* ones (artifact 0 = generated files of mixed origin)
GenTypes(c) ==
  /\ prog \in {"watch", "generate"} /\ proc = "running"
  /\ cyc[c].phase = "genTypes"
  /\ artifact' = IF artifact = specFile THEN artifact ELSE 0
  /\ cyc' = [cyc EXCEPT ![c] = [@ EXCEPT !.phase = "genOps", !.gen = 3]]
  /\ UNCHANGED <<lib, configFile, prog, proc, runs, cacheFile, specFile,
                 isShuttingDown, activeChild, cycleCounter, lastHash, child,
                 exitCode>>

\* runGeneration step 4 (line 176): generateOperations
GenOps(c) ==
  /\ prog \in {"watch", "generate"} /\ proc = "running"
  /\ cyc[c].phase = "genOps"
  /\ cyc' = [cyc EXCEPT ![c] = [@ EXCEPT !.phase = "genClient", !.gen = 4]]
  /\ UNCHANGED <<lib, configFile, prog, proc, runs, disk, isShuttingDown,
                 activeChild, cycleCounter, lastHash, child, exitCode>>

\* runGeneration step 5 (line 180) and watch.ts lines 60/68: all generated
\* files now come from the document on disk; remember the hash
GenClient(c) ==
  /\ prog \in {"watch", "generate"} /\ proc = "running"
  /\ cyc[c].phase = "genClient"
  /\ artifact' = specFile
  /\ Generated(c, [cyc[c] EXCEPT !.gen = 5])
  /\ UNCHANGED <<lib, configFile, prog, runs, cacheFile, specFile,
                 isShuttingDown, activeChild, cycleCounter, child>>

\* a step of runGeneration threw (lines 183-187); caught at watch.ts 72-78
GenStepFail(c) ==
  /\ prog \in {"watch", "generate"} /\ proc = "running"
  /\ cyc[c].phase \in GenPhases \ {"genSave"}
  /\ GenerationFailed(c)
  /\ UNCHANGED <<lib, configFile, prog, runs, disk, isShuttingDown,
                 activeChild, cycleCounter, lastHash, child>>

\* delay(interval) resolved, watch.ts line 82
WatchDelayDone(c) ==
  /\ prog = "watch" /\ proc = "running"
  /\ cyc[c].phase = "waiting"
  /\ cyc' = [cyc EXCEPT ![c].phase = "waited"]
  /\ UNCHANGED <<lib, configFile, prog, proc, runs, disk, isShuttingDown,
                 activeChild, cycleCounter, lastHash, child, exitCode>>

\* what the loop body has awaited when it comes back to line 42
WatchAwaited(c) == cyc[c].phase = "waited"

\* next iteration of the while loop
WatchIterate(c) ==
  /\ prog = "watch" /\ proc = "running"
  /\ c = cycleCounter
  /\ WatchAwaited(c)
  /\ watchLoop
  /\ UNCHANGED <<lib, configFile, prog, runs, disk, isShuttingDown,
                 activeChild, lastHash, child>>

\* the SIGINT/SIGTERM handler, watch.ts lines 31-36: set the flag and
\* process.exit(0); before line 38 the signal's default action ends the
\* process
WatchShutdown ==
  /\ prog = "watch"
  /\ proc \in {"init", "running"}
  /\ isShuttingDown' = (proc = "running")
  /\ Stop(IF proc = "running" THEN 0 ELSE 130)
  /\ UNCHANGED <<lib, configFile, prog, runs, disk, activeChild, cycleCounter,
                 lastHash, cyc, child>>

WatchNext ==
  \/ WatchInit(loadConfig(configFile).ok)
  \/ \E c \in CycleIds :
       \/ WatchFetchFail(c)
       \/ \E b \in Contents : WatchFetchSame(b, c)
       \/ \E b \in Contents : WatchFetchNew(b, c)
       \/ \E b \in Contents : GenFetch(b, c)
       \/ GenSave(c)
       \/ GenTypes(c)
       \/ GenOps(c)
       \/ GenClient(c)
       \/ GenStepFail(c)
       \/ WatchDelayDone(c)
       \/ WatchIterate(c)
  \/ WatchShutdown

\* ------------------------------------------ `tasc generate` (prog generate)
\* generateCommand, generate.ts lines 12-21: loadConfig, then runGeneration;
\* line 27 when loadConfig throws
generateCommand(cfgOk) ==
  /\ prog = "generate"
  /\ proc = "init"
  /\ IF cfgOk
       THEN /\ cyc' = [cyc EXCEPT ![1] = [NoCycle EXCEPT !.phase = "genFetch"]]
            /\ proc' = "running"
            /\ UNCHANGED exitCode
       ELSE /\ Stop(1)
            /\ UNCHANGED cyc
  /\ UNCHANGED <<lib, configFile, prog, runs, disk, isShuttingDown,
                 activeChild, cycleCounter, lastHash, child>>

\* the steps of runGeneration are those of WatchNext
GenerateNext == generateCommand(loadConfig(configFile).ok)

\* the config file is edited, removed or put back before the next start
EditConfig(file) ==
  /\ proc = "stopped"
  /\ runs < MaxRestarts
  /\ file # configFile
  /\ configFile' = file
  /\ UNCHANGED <<lib, prog, proc, runs, disk, isShuttingDown, activeChild,
                 cycleCounter, lastHash, cyc, child, exitCode>>

Next ==
  \/ SchedNext
  \/ WatchNext
  \/ GenerateNext
  \/ Restart
  \/ \E file \in ConfigFiles : EditConfig(file)

Spec == Init /\ [][Next]_vars

\* fairness: the scheduler's own continuations run, timers fire, the
\* operating system delivers signals.  Nothing obliges the child to finish,
\* the source to change, a signal to arrive or the program to be restarted.
FairSpec ==
  /\ Spec
  /\ WF_vars(Initialize(loadConfig(configFile).ok))
  /\ \A c \in CycleIds :
       /\ WF_vars(FetchFail(c) \/ \E b \in Contents :
                    FetchSkip(b, c) \/ FetchChanged(b, c))
       /\ WF_vars(SaveCacheDone(c))
       /\ WF_vars(WriteSpecDone(c))
       /\ WF_vars(AwaitExit(c))
       /\ WF_vars(DelayDone(c))
       /\ WF_vars(Recurse(c))
  /\ WF_vars(ChildSignalled)

\* ------------------------------------- the library in use (prog "lib")
sched == <<prog, proc, runs, cacheFile, specFile, artifact, isShuttingDown,
           activeChild, cycleCounter, lastHash, cyc, child, exitCode,
           configFile>>

\* neither polling program runs
SchedIdle ==
  /\ prog = "lib"
  /\ proc = "stopped"
  /\ runs = 0
  /\ cacheFile = NoCacheFile /\ specFile = 0 /\ artifact = 0
  /\ isShuttingDown = FALSE
  /\ activeChild = FALSE
  /\ cycleCounter = 0
  /\ lastHash = 0
  /\ cyc = [c \in CycleIds |-> NoCycle]
  /\ child = NoChild
  /\ exitCode = -1

\* values of path parameters: a number and a string with a reserved character
PathValues == {Num(7), Str(<<"a", "/">>)}

\* the values maps tried on a template: every assignment of a value, null
\* or nothing to the names between its braces
ValueMaps(str) ==
  LET keys == {extractPathParams(str)[i] : i \in DOMAIN extractPathParams(str)}
  IN {Obj("pathParams", m) : m \in [keys -> PathValues \cup {Undefined, Null}]}

Body == Obj("body", <<>>)

Config == Obj("config", <<>>)

\* an object holding a value under each of the given keys
KeyedBy(keys) ==
  Obj("pathParams", [k \in {keys[i] : i \in DOMAIN keys} |-> Num(7)])

\* extractPathParams(template) is evaluated
ExtractPathParams ==
  /\ names' = [done |-> TRUE, list |-> extractPathParams(template)]
  /\ UNCHANGED <<sched, template, doc, operations, bindings, call, outcome,
                 clock, opsFile, clientOp>>

\* client[method](template, ...args) is called; meant tells what the caller
\* passed each argument for, and in which order it lined them up
ClientCall(method, args, meant) ==
  /\ call' = [via |-> "path", method |-> method, order |-> meant.order,
              args |-> args, index |-> 0,
              pathParams |-> meant.pathParams, data |-> meant.data,
              config |-> meant.config]
  /\ outcome' = createApiClient(method, template, args)
  /\ UNCHANGED <<sched, template, names, doc, operations, bindings, clock,
                 opsFile, clientOp>>

\* generateOperations, operations.ts lines 13-51: parse spec.paths, emit one
\* function per operation (generateOperationsFile, lines 238-240) and write
\* the file
GenerateOperations ==
  /\ operations' = [done |-> TRUE, list |-> parseOpenApiSpec(doc)]
  /\ bindings' = [k \in 1..Len(parseOpenApiSpec(doc)) |->
                    generateOperationFunction(parseOpenApiSpec(doc)[k])]
  /\ opsFile' = generateOperationsFile(parseOpenApiSpec(doc),
                                       loadConfig(configFile).outputs, clock)
  /\ UNCHANGED <<sched, template, names, doc, call, outcome, clock, clientOp>>

\* createTypedApiClient, operations.ts lines 279-283 of the emitted text:
\* client.op = createOperations(client), evaluated from the file on disk
createTypedApiClient ==
  /\ opsFile.written
  /\ clientOp' = [created |-> TRUE,
            table |-> createOperations(opsFile.functions,
                                       Len(opsFile.functions))]
  /\ UNCHANGED <<sched, template, names, doc, operations, bindings, call,
                 outcome, clock, opsFile>>

\* time passes between two generations
TimePasses ==
  /\ opsFile.written
  /\ clock < MaxTime
  /\ clock' = clock + 1
  /\ UNCHANGED <<sched, template, names, doc, operations, bindings, call,
                 outcome, opsFile, clientOp>>

\* api.op[operationId](...) is called with the given actual parameters: the
\* emitted arrow function hands them to the client as its apiCall says
CallBinding(i, actual) ==
  /\ operations.done
  /\ i \in DOMAIN bindings
  /\ LET args == [k \in 1..Len(bindings[i].apiCall) |->
                    actual[bindings[i].apiCall[k]]]
     IN /\ call' = [via |-> "op", method |-> bindings[i].method,
                    order |-> "", args |-> args, index |-> i,
                    pathParams |-> actual.pathParams, data |-> actual.data,
                    config |-> actual.config]
        /\ outcome' = createApiClient(bindings[i].method, bindings[i].path,
                                      args)
  /\ UNCHANGED <<sched, template, names, doc, operations, bindings, clock,
                 opsFile, clientOp>>

\* PathSpec: one template, any of its values maps
PathInit ==
  /\ SchedIdle
  /\ configFile = ConfigFile(DefaultOutputs)
  /\ template \in Strings(MaxLen)
  /\ names = NoNames
  /\ doc = <<>>
  /\ operations = NoOperations
  /\ bindings = <<>>
  /\ call = NoCall
  /\ outcome = NoOutcome
  /\ clock = 1
  /\ opsFile = NoOpsFile
  /\ clientOp = NoClient

\* api.get(template, pathParams)
Get(pathParams) ==
  ClientCall("get", <<pathParams>>,
             [order |-> "declared", pathParams |-> pathParams,
              data |-> Undefined, config |-> Undefined])

PathNext ==
  \/ ExtractPathParams
  \/ \E pp \in {Undefined, Null} \cup ValueMaps(template) : Get(pp)

PathSpec == PathInit /\ [][PathNext]_vars

\* the arguments after the template in the order README.md (lines 397-408)
\* shows: path parameters, body, options
DocumentedArgs(method, url, pathParams, data, config) ==
  (IF includes(url, "{") THEN <<pathParams>> ELSE <<>>)
  \o (IF method \in BodyMethods THEN <<data>> ELSE <<>>)
  \o <<config>>

\* the same in the order of the signatures of api-client.ts (lines 361-370):
\* body, path parameters, options
DeclaredArgs(method, url, pathParams, data, config) ==
  (IF method \in BodyMethods THEN <<data>> ELSE <<>>)
  \o (IF includes(url, "{") THEN <<pathParams>> ELSE <<>>)
  \o <<config>>

\* api[method](template, ...) with a value for every name of the template
PathCall(method, order, config) ==
  LET pathParams == IF includes(template, "{")
                      THEN KeyedBy(extractPathParams(template))
                      ELSE Undefined
      data == IF method \in BodyMethods THEN Body ELSE Undefined
  IN ClientCall(method,
                IF order = "documented"
                  THEN DocumentedArgs(method, template, pathParams, data,
                                      config)
                  ELSE DeclaredArgs(method, template, pathParams, data,
                                    config),
                [order |-> order, pathParams |-> pathParams, data |-> data,
                 config |-> config])

\* binding i declares a parameter of that name
Declares(i, name) ==
  \E k \in DOMAIN bindings[i].params : bindings[i].params[k].name = name

\* what a caller can pass to binding i: for pathParams an object keyed as
\* the declared type says (camel case) or by the names of the template, a
\* body for data, options or nothing for config
Actuals(i) ==
  {[pathParams |-> pp, data |-> d, config |-> c] :
     pp \in IF Declares(i, "pathParams")
              THEN {KeyedBy(bindings[i].pathParamsType),
                    KeyedBy(operations.list[i].pathParams)}
              ELSE {Undefined},
     d \in IF Declares(i, "data") THEN {Body} ELSE {Undefined},
     c \in {Undefined, Config}}

\* OpSpec: a document with one operation, on any short path
OpInit ==
  /\ SchedIdle
  /\ configFile = ConfigFile(DefaultOutputs)
  /\ \E t \in Strings(MaxPathLen), m \in MethodSet, body \in BOOLEAN :
       /\ template = t
       /\ doc = <<[path |-> t,
                   item |-> [x \in MethodSet |->
                               IF x = m THEN OperationObject(1, body)
                                        ELSE NoOperation]]>>
  /\ names = NoNames
  /\ operations = NoOperations
  /\ bindings = <<>>
  /\ call = NoCall
  /\ outcome = NoOutcome
  /\ clock = 1
  /\ opsFile = NoOpsFile
  /\ clientOp = NoClient

OpNext ==
  \/ GenerateOperations
  \/ \E i \in DOMAIN bindings : \E actual \in Actuals(i) :
       CallBinding(i, actual)
  \/ \E m \in MethodSet, order \in {"documented", "declared"},
        config \in {Undefined, Config} :
       /\ doc[1].item[m].present
       /\ PathCall(m, order, config)

OpSpec == OpInit /\ [][OpNext]_vars

\* where a method stands in Methods
MethodIndex(m) == CHOOSE i \in DOMAIN Methods : Methods[i] = m

\* the p-th path of a document of DocSpec
DocPath(p) == [i \in 1..p |-> "a"] \o <<"{", "a", "}">>

\* DocSpec: documents of MaxPaths paths with at most MaxOps operation
\* objects, any of them with or without an operationId
DocInit ==
  /\ SchedIdle
  /\ configFile = ConfigFile(DefaultOutputs)
  /\ \E S \in SUBSET ((1..MaxPaths) \X MethodSet) :
       /\ Cardinality(S) <= MaxOps
       /\ \E withId \in SUBSET S :
            doc = [p \in 1..MaxPaths |->
                     [path |-> DocPath(p),
                      item |-> [m \in MethodSet |->
                         IF <<p, m>> \in S
                           THEN OperationObject(
                                  IF <<p, m>> \in withId
                                    THEN (p - 1) * Len(Methods)
                                           + MethodIndex(m)
                                    ELSE 0,
                                  m \in BodyMethods)
                           ELSE NoOperation]]]
  /\ template = <<>>
  /\ names = NoNames
  /\ operations = NoOperations
  /\ bindings = <<>>
  /\ call = NoCall
  /\ outcome = NoOutcome
  /\ clock = 1
  /\ opsFile = NoOpsFile
  /\ clientOp = NoClient

DocNext == GenerateOperations

DocSpec == DocInit /\ [][DocNext]_vars

\* the outputs options tried: the defaults, one directory for every file,
\* the types file in a directory of its own
OutputsTried ==
  {DefaultOutputs,
   Outputs(<<"generated">>, NotSet),
   Outputs(<<>>, FilePath(<<"types">>, Name("api", "ts")))}

\* the methods of the documents of GenSpec: one without and one with a body
GenMethods == {"get", "post"}

\* GenSpec: documents of MaxPaths paths with at most one operation each,
\* the operationIds drawn from NumIds values, so that they may collide;
\* generation is run, and run again at any later time
GenInit ==
  /\ SchedIdle
  /\ configFile \in {ConfigFile(o) : o \in OutputsTried}
  /\ \E pick \in [1..MaxPaths -> (GenMethods \cup {"none"}) \X (1..NumIds)] :
       doc = [p \in 1..MaxPaths |->
                [path |-> DocPath(p),
                 item |-> [m \in MethodSet |->
                             IF m = pick[p][1]
                               THEN OperationObject(pick[p][2],
                                                    m \in BodyMethods)
                               ELSE NoOperation]]]
  /\ template = <<>>
  /\ names = NoNames
  /\ operations = NoOperations
  /\ bindings = <<>>
  /\ call = NoCall
  /\ outcome = NoOutcome
  /\ clock = 1
  /\ opsFile = NoOpsFile
  /\ clientOp = NoClient

GenNext ==
  \/ GenerateOperations
  \/ TimePasses
  \/ createTypedApiClient

GenSpec == GenInit /\ [][GenNext]_vars

\* ------------------------------------------------------------ properties
ActivePhases ==
  {"fetching", "saving", "writing", "regenerating", "waiting"} \cup GenPhases

\* the fetch of cycle c has resolved or rejected
Resolved(c) == cyc[c].phase \notin {"none", "fetching"}

\* runGenerateOnce of cycle c has returned
RunOver(c) == cyc[c].phase \in {"waiting", "waited", "cut"}

\* C1: non-overlapping polling, in the scheduler and in `tasc watch`: at
\* most one cycle is active at any time, and a cycle is started only when
\* the cycle before it has finished its regeneration and its wait.
C1_NonOverlap ==
  /\ Cardinality({c \in CycleIds : cyc[c].phase \in ActivePhases}) <= 1
  /\ \A c \in CycleIds :
       (c > 1 /\ cyc[c].phase # "none") => cyc[c - 1].phase = "waited"
  /\ child.state = "running" =>
       \E c \in CycleIds : cyc[c].phase = "regenerating"

C1_Witness ==
  /\ prog = "sched"
  /\ cyc[1].spawned = 1
  /\ cyc[2].phase = "fetching"

FetchedNewHash(c) ==
  /\ Resolved(c) /\ cyc[c].fetchOk
  /\ cyc[c].cached.ok
  /\ cyc[c].cached.hash # sha256(cyc[c].content)

DetectedChange(c) ==
  /\ Resolved(c) /\ cyc[c].fetchOk
  /\ ~cyc[c].cached.ok \/ cyc[c].cached.hash # sha256(cyc[c].content)

C6_DurableAcrossRestart ==
  [][prog = "sched" =>
      /\ (~isShuttingDown /\ isShuttingDown') => cacheFile' = cacheFile
      /\ (proc = "stopped" \/ proc' = "stopped") => cacheFile' = cacheFile
      /\ (/\ runs >= 1 /\ exitCode = 0
          /\ cyc[1].phase = "fetching"
          /\ cacheFile.kind = "record"
          /\ cyc'[1].phase # "fetching" /\ cyc'[1].fetchOk
          /\ cacheFile.hash = sha256(cyc'[1].content))
           => /\ ~cyc'[1].shouldGenerate
              /\ cyc'[1].spawned = 0
              /\ cyc'[1].phase \in {"waiting", "cut"}
              /\ cacheFile' = cacheFile]_vars

C6_Witness ==
  /\ prog = "sched" /\ runs = 1 /\ exitCode = 0
  /\ cyc[1].phase = "waiting" /\ cyc[1].fetchOk
  /\ cyc[1].spawned = 0
  /\ cacheFile.hash = sha256(cyc[1].content)

\* C7: a restarted `tasc watch` does not run generation in its first cycle
\* when the source serves the very content the generated files were last
\* produced from.
C7_WatchRestartSkips ==
  (prog = "watch" /\ runs >= 1 /\ cyc[1].phase = "genFetch")
    => cyc[1].hash # sha256(artifact)

\* C8: when the fetch of a scheduler cycle fails, the cycle is treated as
\* should-regenerate with no new bytes: the regeneration step is invoked,
\* neither openapi.json nor the CacheRecord is written during the cycle, and
\* (no shutdown requested) the loop goes on to WAITING.
C8_FailOpen ==
  [][prog = "sched" =>
      \A c \in CycleIds :
        /\ (cyc[c].phase = "fetching" /\ cyc'[c].phase # "fetching"
            /\ ~cyc'[c].fetchOk)
             => /\ cyc'[c].phase = "regenerating"
                /\ cyc'[c].shouldGenerate
                /\ cyc'[c].spawned = 1
                /\ activeChild' /\ child'.state \in {"running", "spawnFailed"}
                /\ cacheFile' = cacheFile /\ specFile' = specFile
        /\ (cyc[c].phase = "regenerating" /\ ~cyc[c].fetchOk)
             => /\ cacheFile' = cacheFile /\ specFile' = specFile
                /\ (cyc'[c].phase # "regenerating" /\ ~isShuttingDown)
                     => (cyc'[c].phase = "waiting" /\ proc' = "running")]_vars

C8_Witness ==
  /\ prog = "sched"
  /\ \E c \in CycleIds :
       /\ cyc[c].phase = "waiting" /\ ~cyc[c].fetchOk
       /\ cyc[c].spawned = 1

AbnormalExits == {"fail", "signal", "error", "SIGTERM", "SIGKILL"}

\* C9: a regeneration that exits with a non-zero code, is killed by a signal
\* or fails to start does not terminate the scheduler: the cycle proceeds to
\* WAITING and, unless shutdown was requested, the next FETCHING follows.
C9_RegeneratorFailureContained ==
  [][prog = "sched" =>
      \A c \in CycleIds :
        /\ (/\ cyc[c].phase = "regenerating"
            /\ cyc'[c].phase # "regenerating"
            /\ child.exit \in AbnormalExits)
             => IF isShuttingDown
                  THEN proc' = "stopped" /\ exitCode' = 0
                  ELSE proc' = "running" /\ cyc'[c].phase = "waiting"
        /\ (cyc[c].phase = "waiting" /\ cyc'[c].phase # "waiting")
             => (cyc'[c].phase = "waited" /\ proc' = "running")
        /\ (/\ cyc[c].phase = "waited" /\ c = cycleCounter
            /\ proc = "running"
            /\ (proc' # proc \/ cycleCounter' # cycleCounter))
             => IF isShuttingDown
                  THEN proc' = "stopped" /\ exitCode' = 0
                  ELSE /\ proc' = "running"
                       /\ cycleCounter' = c + 1
                       /\ cyc'[c + 1].phase = "fetching"]_vars

C9_Witness ==
  /\ prog = "sched" /\ ~isShuttingDown
  /\ cyc[1].spawned = 1
  /\ child.exit \in AbnormalExits
  /\ cyc[2].phase = "fetching"

\* C10: if a regeneration is active when shutdown is requested, it is sent a
\* graceful termination signal and, if it does not terminate, a forceful one,
\* so that an active regeneration is always eventually terminated after a
\* shutdown request.
C10_ChildEventuallyTerminated ==
  /\ [][(/\ prog = "sched"
         /\ ~isShuttingDown /\ isShuttingDown'
         /\ activeChild /\ child.state = "running")
          => child'.termSent]_vars
  /\ (prog = "sched" /\ child.state = "running" /\ child.termSent)
       ~> (child.state # "running")

\* runGenerateOnce of cycle c is running (lines 516-614)
InRun(c) == cyc[c].phase \in {"fetching", "saving", "writing", "regenerating"}

\* C11: cooperative shutdown of the scheduler: the flag is looked at before
\* the fetch, before the wait and before recursing; once shutdown has been
\* requested no cycle enters FETCHING (nor WAITING), and the loop ends, with
\* schedule() returning, at the first of these boundaries it reaches.
C11_CooperativeShutdown ==
  [][(prog = "sched" /\ isShuttingDown) =>
      /\ \A c \in CycleIds :
           /\ cyc[c].phase # "fetching" => cyc'[c].phase # "fetching"
           /\ cyc[c].phase # "waiting" => cyc'[c].phase # "waiting"
           /\ (proc = "running" /\ InRun(c) /\ ~InRun(c)')
                => (cyc'[c].phase = "cut" /\ proc' = "stopped"
                    /\ exitCode' = 0)
           /\ (/\ proc = "running" /\ c = cycleCounter
               /\ cyc[c].phase = "waited"
               /\ (proc' # proc \/ cycleCounter' # cycleCounter))
                => (proc' = "stopped" /\ exitCode' = 0
                    /\ cycleCounter' = cycleCounter)
      /\ (proc = "init" /\ proc' # "init")
           => (proc' = "stopped" /\ cycleCounter' = 0)
      /\ proc \in {"init", "running"} => isShuttingDown']_vars

C11_Witness ==
  /\ prog = "sched" /\ isShuttingDown
  /\ proc = "stopped" /\ exitCode = 0
  /\ cycleCounter = 1
  /\ cyc[1].phase = "cut" /\ cyc[1].spawned = 1

\* C12: `tasc watch` exits on an interrupt only when no generation is in
\* flight (watch.ts has no way to ask a running generation to terminate, so
\* "completed" is the only way out the statement leaves).
C12_WatchAwaitsGeneration ==
  [][(prog = "watch" /\ proc = "running" /\ proc' = "stopped") =>
      \A c \in CycleIds : cyc[c].phase \notin GenPhases]_vars

\* the {name} occurrences of a template, as pairs of brace positions: an
\* opening brace, one or more characters other than "}", a closing brace;
\* the opening brace is the first one after the closing brace before it
Occurrences(str) ==
  {o \in (1..Len(str)) \X (1..Len(str)) :
     /\ str[o[1]] = "{" /\ str[o[2]] = "}"
     /\ o[2] >= o[1] + 2
     /\ \A k \in (o[1] + 1)..(o[2] - 1) : str[k] # "}"
     /\ \A h \in 1..(o[1] - 1) :
          str[h] = "{" => \E k \in (h + 1)..(o[1] - 1) : str[k] = "}"}

\* the name between the braces of occurrence o
NameAt(str, o) == SubSeq(str, o[1] + 1, o[2] - 1)

Range(list) == {list[i] : i \in DOMAIN list}

\* every brace of the template belongs to a {name} occurrence
WellFormed(str) ==
  \A i \in 1..Len(str) :
    /\ str[i] = "{" => \E o \in Occurrences(str) : o[1] = i
    /\ str[i] = "}" => \E o \in Occurrences(str) : o[2] = i

\* the occurrences the values map of the latest call has no value for
Unbound ==
  {o \in Occurrences(template) :
     Nullish(Lookup(call.pathParams, NameAt(template, o)))}

\* C13: when a values map is supplied that has no value (null or undefined)
\* for some placeholder, interpolatePath scans the whole template and fails
\* with one error naming every missing placeholder and the template; the
\* dispatcher sends no request for that call, whatever calls came before.
C13_MissingPathParam ==
  (call.via = "path" /\ call.pathParams.t = "object" /\ Unbound # {}) =>
    /\ outcome.kind = "threw"
    /\ outcome.template = template
    /\ Range(outcome.missing) = {NameAt(template, o) : o \in Unbound}
    /\ Len(outcome.missing) = Cardinality(Unbound)
    /\ outcome.url = <<>>
    /\ outcome.data = Undefined /\ outcome.config = Undefined

C13_Witness ==
  /\ call.via = "path" /\ call.pathParams.t = "object"
  /\ Cardinality(Occurrences(template)) = 2 /\ WellFormed(template)
  /\ outcome.kind = "threw"
  /\ Len(outcome.missing) = 2
  /\ outcome.missing[1] # outcome.missing[2]

\* what position i of the template contributes to the interpolated string
Piece(str, params, i) ==
  IF \E o \in Occurrences(str) : o[1] = i
    THEN LET o == CHOOSE o \in Occurrences(str) : o[1] = i
         IN encodeURIComponent(StringOf(Lookup(params, NameAt(str, o))))
  ELSE IF \E o \in Occurrences(str) : o[1] < i /\ i <= o[2]
    THEN <<>>
  ELSE <<str[i]>>

RECURSIVE Substituted(_, _, _)
Substituted(str, params, n) ==
  IF n = 0 THEN <<>>
  ELSE Substituted(str, params, n - 1) \o Piece(str, params, n)

\* C14: when every placeholder has a non-null value, interpolatePath returns
\* the template with every occurrence of every placeholder (repeated names
\* included) replaced by the percent-encoded string form of its value, all
\* other characters unchanged; a template without "{" comes back as it is,
\* whatever values are passed.
C14_Interpolated ==
  call.via = "path" =>
    /\ ~includes(template, "{") =>
         (outcome.kind = "sent" /\ outcome.url = template)
    /\ (call.pathParams.t = "object" /\ Unbound = {}) =>
         /\ outcome.kind = "sent"
         /\ outcome.url =
              Substituted(template, call.pathParams, Len(template))

C14_Witness ==
  /\ call.via = "path" /\ call.pathParams.t = "object"
  /\ WellFormed(template)
  /\ \E o1, o2 \in Occurrences(template) :
       o1 # o2 /\ NameAt(template, o1) = NameAt(template, o2)
  /\ outcome.kind = "sent"
  /\ includes(outcome.url, "%")
  /\ ~includes(outcome.url, "{")

\* where a name occurs first in a template
FirstOccurrence(str, name) ==
  CHOOSE o \in Occurrences(str) :
    /\ NameAt(str, o) = name
    /\ \A q \in Occurrences(str) : NameAt(str, q) = name => o[1] <= q[1]

\* C15: for a template with n distinct placeholder names (here: a template
\* whose braces all belong to placeholders), extractPathParams returns
\* exactly those n names in first-occurrence order; a name repeated in the
\* template appears once in the result.
C15_DistinctNames ==
  (names.done /\ WellFormed(template)) =>
    /\ Range(names.list) =
         {NameAt(template, o) : o \in Occurrences(template)}
    /\ \A i, j \in DOMAIN names.list :
         i < j => /\ names.list[i] # names.list[j]
                  /\ FirstOccurrence(template, names.list[i])[1]
                       < FirstOccurrence(template, names.list[j])[1]

\* C16: dispatcher argument order (checked on well-formed templates): with
\* a brace in the template the first argument after it is taken as the
\* path parameters, then (post/put/patch) the body, then the call options;
\* without a brace the call options come first, or the body and then the
\* call options for post/put/patch.
C16_ArgumentOrder ==
  (call.via = "path" /\ call.order = "documented" /\ WellFormed(template)) =>
    /\ outcome.pathParams = call.pathParams
    /\ outcome.kind = "sent"
    /\ outcome.data = call.data
    /\ outcome.config = call.config

\* C17: generator/dispatcher call-shape agreement (checked on well-formed
\* templates): for every operation, a call of the generated binding delivers
\* its path-parameters value to the path interpolation, its body argument as
\* the request body and its call-options argument as the transport options.
C17_CallShapeAgreement ==
  (call.via = "op" /\ WellFormed(bindings[call.index].path)) =>
    /\ outcome.pathParams = call.pathParams
    /\ outcome.kind = "sent" =>
         (outcome.data = call.data /\ outcome.config = call.config)

\* C18: for an operation with path parameters (here: one whose method takes
\* a body exactly when the operation has one, on a well-formed template),
\* calling the binding with a value under each camel-cased parameter name
\* yields a fully interpolated URL and never a missing-parameter failure.
C18_CamelCaseKeys ==
  (/\ call.via = "op"
   /\ WellFormed(bindings[call.index].path)
   /\ Len(operations.list[call.index].pathParams) > 0
   /\ (call.method \in BodyMethods)
        = operations.list[call.index].hasRequestBody
   /\ call.pathParams = KeyedBy(bindings[call.index].pathParamsType)) =>
    /\ outcome.kind = "sent"
    /\ ~includes(outcome.url, "{")

\* the method order the extractor is said to follow
MethodRank(m) ==
  CASE m = "get" -> 1 [] m = "post" -> 2 [] m = "put" -> 3
    [] m = "delete" -> 4 [] m = "patch" -> 5

\* where a path stands in the document
PathIndex(t) == CHOOSE p \in DOMAIN doc : doc[p].path = t

\* C19: the extractor's output is exactly the (path, method) pairs whose
\* operation object has an operationId, one record per pair, ordered by the
\* insertion order of the paths and then get/post/put/delete/patch; an
\* operation without operationId is skipped and the extraction goes on; the
\* generator emits the bindings in the same order.
C19_ExtractionOrder ==
  operations.done =>
    LET ops == operations.list
        withId == {s \in (DOMAIN doc) \X MethodSet :
                     /\ doc[s[1]].item[s[2]].present
                     /\ doc[s[1]].item[s[2]].operationId # 0}
    IN /\ {<<PathIndex(ops[k].path), ops[k].method>> : k \in DOMAIN ops}
            = withId
       /\ Len(ops) = Cardinality(withId)
       /\ \A k \in DOMAIN ops :
            ops[k].operationId
              = doc[PathIndex(ops[k].path)].item[ops[k].method].operationId
       /\ \A j, k \in DOMAIN ops :
            j < k =>
              \/ PathIndex(ops[j].path) < PathIndex(ops[k].path)
              \/ /\ ops[j].path = ops[k].path
                 /\ MethodRank(ops[j].method) < MethodRank(ops[k].method)
       /\ Len(bindings) = Len(ops)
       /\ \A k \in DOMAIN ops :
            /\ bindings[k].operationId = ops[k].operationId
            /\ bindings[k].path = ops[k].path
            /\ bindings[k].method = ops[k].method

C19_Witness ==
  /\ operations.done
  /\ Len(operations.list) = 2
  /\ doc[1].item["get"].present /\ doc[1].item["get"].operationId = 0
  /\ doc[1].item["patch"].operationId # 0
  /\ doc[2].item["post"].operationId # 0

\* C20: the parameter list of every generated binding is: the path
\* parameters first iff the operation has path parameter names; then the
\* body iff hasRequestBody; then, always and last, the optional call options.
C20_ParameterList ==
  operations.done =>
    \A i \in DOMAIN bindings :
      LET ps == bindings[i].params
          op == operations.list[i]
          At(name) == {k \in DOMAIN ps : ps[k].name = name}
          first == IF Len(op.pathParams) > 0 THEN 1 ELSE 0
          second == IF op.hasRequestBody THEN 1 ELSE 0
      IN /\ At("pathParams") = (IF first = 1 THEN {1} ELSE {})
         /\ At("data") = (IF second = 1 THEN {first + 1} ELSE {})
         /\ At("config") = {Len(ps)}
         /\ Len(ps) = first + second + 1
         /\ ps[Len(ps)].optional

C20_Witness ==
  /\ operations.done
  /\ Len(bindings) = 1
  /\ operations.list[1].pathParams # <<>>
  /\ operations.list[1].hasRequestBody
  /\ [k \in DOMAIN bindings[1].params |-> bindings[1].params[k].name]
       = <<"pathParams", "data", "config">>

StepPhase(n) ==
  CASE n = 0 -> "genFetch" [] n = 1 -> "genSave" [] n = 2 -> "genTypes"
    [] n = 3 -> "genOps" [] n = 4 -> "genClient" [] n = 5 -> "done"

C23_ConfigErrorFatal ==
  [][(prog = "sched" \/ prog = "watch") =>
      /\ (proc = "init" /\ configFile.kind # "valid") =>
           /\ proc' \in {"init", "stopped"}
           /\ proc' = "stopped" => exitCode' >= 1
           /\ (proc' = "stopped" /\ prog = "sched") => exitCode' = 1
           /\ cycleCounter' = 0
           /\ cyc' = [c \in CycleIds |-> NoCycle]
           /\ disk' = disk
           /\ child' = NoChild /\ ~activeChild'
      /\ proc = "stopped" =>
           /\ disk' = disk
           /\ child'.state = "running" => child' = child
           /\ proc' = "stopped" => (cyc' = cyc /\ exitCode' = exitCode)]_vars

C23_Witness ==
  /\ prog = "sched"
  /\ runs = 1
  /\ configFile = InvalidConfigFile
  /\ proc = "stopped" /\ exitCode = 1
  /\ cycleCounter = 0
  /\ cacheFile.kind = "record"

\* the emitted functions that carry a given operationId
EmittedAs(id) ==
  {k \in DOMAIN opsFile.functions : opsFile.functions[k].operationId = id}

\* C24: duplicate operationIds are not detected: generation completes, every
\* operation is emitted, in extraction order, and the function client.op
\* holds under an operationId is the last one emitted with that id.
C24_LastDuplicateWins ==
  clientOp.created =>
    /\ operations.done
    /\ Len(opsFile.functions) = Len(operations.list)
    /\ Len(operations.list)
         = Cardinality({p \in DOMAIN doc :
                          \E m \in MethodSet : doc[p].item[m].present})
    /\ \A k \in DOMAIN opsFile.functions :
         /\ opsFile.functions[k].operationId = operations.list[k].operationId
         /\ opsFile.functions[k].path = operations.list[k].path
         /\ \A j \in 1..(k - 1) :
              PathIndex(opsFile.functions[j].path)
                < PathIndex(opsFile.functions[k].path)
    /\ \A id \in 1..NumIds :
         IF EmittedAs(id) = {}
           THEN \A e \in clientOp.table : e[1] # id
           ELSE \A e \in clientOp.table :
                  e[1] = id => \A k \in EmittedAs(id) : k <= e[2]
    /\ \A e \in clientOp.table : e[2] \in EmittedAs(e[1])
    /\ \A id \in 1..NumIds :
         EmittedAs(id) # {} => \E e \in clientOp.table : e[1] = id

C24_Witness ==
  /\ clientOp.created
  /\ Len(opsFile.functions) = 2
  /\ opsFile.functions[1].operationId = opsFile.functions[2].operationId
  /\ opsFile.functions[1].method # opsFile.functions[2].method
  /\ clientOp.table = {<<opsFile.functions[2].operationId, 2>>}

\* C25: once shutdown has been requested the scheduler starts no
\* regeneration process: a request that arrives while a cycle fetches and
\* compares keeps that cycle from spawning.
C25_NoSpawnAfterShutdown ==
  [][(prog = "sched" /\ isShuttingDown) =>
      /\ \A c \in CycleIds : cyc'[c].spawned <= cyc[c].spawned
      /\ ~activeChild => ~activeChild']_vars

\* C26: no indefinitely stale artifact: when the regeneration started for
\* newly fetched content has not produced the files of that content, the
\* next cycle regenerates even though it fetches the same content.
C26_RetryAfterFailedRegeneration ==
  prog = "sched" =>
    \A c \in CycleIds :
      (/\ c > 1
       /\ cyc[c - 1].fetchOk /\ cyc[c - 1].spawned = 1
       /\ Resolved(c) /\ cyc[c].fetchOk
       /\ cyc[c].content = cyc[c - 1].content
       /\ artifact # cyc[c].content)
        => cyc[c].shouldGenerate

\* C27: in `tasc watch` the content hashed for change detection is the
\* content used for generation: whenever a cycle records lastHash = h, the
\* generated files were produced from content whose SHA-256 is h.
C27_HashedIsGenerated ==
  [][(prog = "watch" /\ lastHash' # lastHash /\ lastHash' # 0) =>
      sha256(artifact') = lastHash']_vars

\* C28: for every path template the generator's test (the template has a
\* {name} match) and the dispatcher's test (the template contains "{")
\* agree, so a binding's call options are never taken for path parameters.
C28_BraceTestAgreement ==
  /\ operations.done =>
       \A i \in DOMAIN bindings :
         Declares(i, "pathParams") <=> includes(bindings[i].path, "{")
  /\ (call.via = "op" /\ call.method \in {"get", "delete"}
      /\ ~operations.list[call.index].hasRequestBody) =>
       /\ outcome.pathParams = call.pathParams
       /\ outcome.kind = "sent" => outcome.config = call.config

\* C29: on a template with a placeholder, a call that supplies no path
\* parameters at all (undefined or null) fails naming every placeholder and
\* sends nothing; no request is ever sent on a URL that still holds a
\* {name} placeholder.
C29_NoValuesFails ==
  (call.via = "path" /\ WellFormed(template)) =>
    /\ (Nullish(call.pathParams) /\ Occurrences(template) # {}) =>
         /\ outcome.kind = "threw"
         /\ Range(outcome.missing)
              = {NameAt(template, o) : o \in Occurrences(template)}
    /\ outcome.kind = "sent" => Occurrences(outcome.url) = {}

====
